---- MODULE Spec2Model ----
(***************************************************************************)
(* Break Reminder (src/src/extension.ts): the work/break timer state       *)
(* machine of the extension.  One action per host callback: activate,      *)
(* deactivate, a timer firing, a click on / dismissal of the break         *)
(* notification, a message from a webview panel, a panel closed by hand.   *)
(*                                                                         *)
(* Numbers that the code handles as minutes (floats) are fixed-point       *)
(* integers: Scale units make one minute.  JavaScript values that may be   *)
(* absent or of the wrong type are tagged records [t, v], t = typeof.      *)
(***************************************************************************)
EXTENDS Integers, Sequences, FiniteSets, Bags, TLC

VARIABLES
  timer,                  \* the module-level handle: 0 = undefined, else a timer id
  timers,                 \* the runtime's live (armed, not fired, not cleared) timeouts
  currentPanelOpen,
  isDisabledThisSession,
  isPausedManually,
  workMinutes,            \* context.globalState 'workMinutes'
  defaultWorkMinutes,     \* configuration breakReminder.defaultWorkMinutes
  panels,                 \* the open webview panels, a bag of [kind, minutes]
  notes,                  \* break notifications shown and not yet answered
  active,                 \* between activate and deactivate
  log,                    \* what the last callback did, in order
  swt,                    \* the startWorkTimer calls of the last callback
  last                    \* the last callback that ran

vars == <<timer, timers, currentPanelOpen, isDisabledThisSession, isPausedManually,
          workMinutes, defaultWorkMinutes, panels, notes, active, log, swt, last>>

---------------------------------------------------------------------------
(* Bounds of the model *)

\* open panels and unanswered notifications, together
MaxPending == 2

(* Fixed-point resolution of a number of minutes: units per millisecond, so *)
(* that a delay of half a millisecond exists and Math.round has work to do *)
UnitsPerMs == 2

---------------------------------------------------------------------------
(* JavaScript values *)

Num(n) == [t |-> "number", v |-> n]
Undefined == [t |-> "undefined", v |-> 0]
Text == [t |-> "string", v |-> 1]

IsNumber(x) == x.t = "number"

\* !x for the values of the model: undefined and 0 are falsy, a non-empty string is not
Falsy(x) == x.t = "undefined" \/ (x.t = "number" /\ x.v = 0)

Max(a, b) == IF a >= b THEN a ELSE b

\* Math.round of the rational n / d (d > 0): the nearest integer, halves upwards
Round(n, d) == (2 * n + d) \div (2 * d)

MinDelayMs == 1000
MsPerMinute == 60000

\* units per minute
Scale == UnitsPerMs * MsPerMinute

\* DelayMs without the floor of 1000 ms
DelayMsNoFloor(u) == Round(u, UnitsPerMs)

\* Math.max(1000, Math.round(minutes * 60 * 1000)), minutes in units of 1/Scale
DelayMs(u) == Max(MinDelayMs, Round(u, UnitsPerMs))

\* the minutes a workTimeSelected, a confirmSnooze, a breakDurationSelected may carry
WorkInputs == {-Scale, 0, Scale}
SnoozeInputs == {-Scale, 0, 1, 2999, 5 * Scale}
\* breaks of 10 seconds, of 59.7 seconds and of 5 minutes
BreakInputs == {Scale \div 6, (995 * Scale) \div 1000, 5 * Scale}
MinutesOf(command) ==
  CASE command = "workTimeSelected" -> WorkInputs
    [] command = "confirmSnooze" -> SnoozeInputs
    [] command = "breakDurationSelected" -> BreakInputs

\* cfg.get('defaultWorkMinutes', 0.166) in activate
ActivateFallback == (166 * Scale) \div 1000
\* .get('defaultWorkMinutes', 30) in getWorkMinutes
GetFallback == 30 * Scale

\* WorkspaceConfiguration.get(key, defaultValue)
CfgGet(cfg, dflt) == IF cfg.t = "undefined" THEN Num(dflt) ELSE cfg

ConfigInputs == {Undefined, Num(25 * Scale)}

\* what the store holds when the process starts: nothing on a first run, or
\* the 45 minutes chosen in an earlier run
PersistedInputs == {Undefined, Num(45 * Scale)}

---------------------------------------------------------------------------
(* The state a callback works on, as one record *)

Cur ==
  [timer |-> timer, timers |-> timers, panelOpen |-> currentPanelOpen,
   disabled |-> isDisabledThisSession, paused |-> isPausedManually,
   stored |-> workMinutes, cfg |-> defaultWorkMinutes, panels |-> panels,
   notes |-> notes, active |-> active, log |-> <<>>, swt |-> <<>>]

Commit(s, ev) ==
  /\ timer' = s.timer
  /\ timers' = s.timers
  /\ currentPanelOpen' = s.panelOpen
  /\ isDisabledThisSession' = s.disabled
  /\ isPausedManually' = s.paused
  /\ workMinutes' = s.stored
  /\ defaultWorkMinutes' = s.cfg
  /\ panels' = s.panels
  /\ notes' = s.notes
  /\ active' = s.active
  /\ log' = s.log
  /\ swt' = s.swt
  /\ last' = ev

Event(ev, kind, msg) == [ev |-> ev, kind |-> kind, command |-> msg.command, minutes |-> msg.minutes]
NoMsg == [command |-> "", minutes |-> Undefined]

Logged(s, what) == [s EXCEPT !.log = Append(@, what)]

---------------------------------------------------------------------------
(* Timers *)

UsedIds(s) == {t.id : t \in s.timers} \cup {s.timer}

\* a handle no live timer and no variable holds
FreshId(s) == CHOOSE i \in 1..(Cardinality(UsedIds(s)) + 1) :
                 i \notin UsedIds(s) /\ \A j \in 1..(i - 1) : j \in UsedIds(s)

\* ClearTimer with the clearTimeout call left out: the handle is dropped, the
\* timeout stays armed
ClearTimerNoCancel(s) ==
  IF s.timer # 0 THEN Logged([s EXCEPT !.timer = 0], "timer=undefined") ELSE s

\* if (timer) { clearTimeout(timer); timer = undefined; }
\* clearTimeout of a handle whose timer has fired or was cleared does nothing
ClearTimer(s) ==
  LET live == \E t \in s.timers : t.id = s.timer
      s1 == Logged(s, IF live THEN "clearTimeout" ELSE "clearTimeout(stale)")
  IN IF s.timer # 0
       THEN Logged([s1 EXCEPT !.timers = {t \in @ : t.id # s.timer}, !.timer = 0], "timer=undefined")
       ELSE s

\* timer = setTimeout(callback, ms)
SetTimer(s, kind, minutes, ms) ==
  LET id == FreshId(s) IN
  Logged([s EXCEPT !.timers = @ \cup {[id |-> id, kind |-> kind, minutes |-> minutes, ms |-> ms]},
                   !.timer = id], "setTimeout")

---------------------------------------------------------------------------
(* extension.ts, function by function *)

notifyBreak(s) == Logged(s, "sound")

\* getWorkMinutes with v >= 0 for v > 0
getWorkMinutesNonNegative(stored, cfg) ==
  IF IsNumber(stored) /\ stored.v >= 0 THEN stored ELSE CfgGet(cfg, GetFallback)

\* getWorkMinutes that never reads the stored value
getWorkMinutesDefaultOnly(stored, cfg) == CfgGet(cfg, GetFallback)

getWorkMinutes(stored, cfg) ==
  IF IsNumber(stored) /\ stored.v > 0 THEN stored ELSE CfgGet(cfg, GetFallback)

\* startWorkTimer with isPausedManually left out of its guard
startWorkTimerIgnoringPause(s) ==
  LET minutes == getWorkMinutes(s.stored, s.cfg)
      armed == SetTimer(ClearTimer(s), "work", minutes, DelayMs(minutes.v))
      out == IF s.panelOpen \/ s.disabled THEN s ELSE armed
      call == [panelOpen |-> s.panelOpen, disabled |-> s.disabled, paused |-> s.paused,
               before |-> s.timer, after |-> out.timer,
               ops |-> SubSeq(out.log, Len(s.log) + 1, Len(out.log))]
  IN [out EXCEPT !.swt = Append(@, call)]

\* startWorkTimer with currentPanelOpen left out of its guard
startWorkTimerIgnoringPanel(s) ==
  LET minutes == getWorkMinutes(s.stored, s.cfg)
      armed == SetTimer(ClearTimer(s), "work", minutes, DelayMs(minutes.v))
      out == IF s.disabled \/ s.paused THEN s ELSE armed
      call == [panelOpen |-> s.panelOpen, disabled |-> s.disabled, paused |-> s.paused,
               before |-> s.timer, after |-> out.timer,
               ops |-> SubSeq(out.log, Len(s.log) + 1, Len(out.log))]
  IN [out EXCEPT !.swt = Append(@, call)]

\* every call is noted in swt: the flags and the handle it found, the handle it
\* left and the timer operations it made
startWorkTimer(s) ==
  LET minutes == getWorkMinutes(s.stored, s.cfg)
      armed == SetTimer(ClearTimer(s), "work", minutes, DelayMs(minutes.v))
      out == IF s.panelOpen \/ s.disabled \/ s.paused THEN s ELSE armed
      call == [panelOpen |-> s.panelOpen, disabled |-> s.disabled, paused |-> s.paused,
               before |-> s.timer, after |-> out.timer,
               ops |-> SubSeq(out.log, Len(s.log) + 1, Len(out.log))]
  IN [out EXCEPT !.swt = Append(@, call)]

SecondsPerMinute == 60

\* const totalSeconds = Math.round(breakMinutes * 60)
totalSeconds(breakMinutes) == Round(breakMinutes * SecondsPerMinute, Scale)

\* `${totalSeconds} сек` or `${Math.round(breakMinutes)} мин`: the number and the unit
displayTitle(breakMinutes) ==
  IF totalSeconds(breakMinutes) < SecondsPerMinute
    THEN [n |-> totalSeconds(breakMinutes), unit |-> "sec"]
    ELSE [n |-> Round(breakMinutes, Scale), unit |-> "min"]

\* the title of the panels whose title is a fixed text
NoTitle == [n |-> 0, unit |-> ""]

\* a panel: title is what its heading displays, seconds what its countdown starts from
Panel(kind, minutes) == [kind |-> kind, minutes |-> minutes, title |-> NoTitle, seconds |-> 0]

\* the break panel: 'Перерыв ${displayTitle}', let seconds = ${totalSeconds}
BreakPanel(breakMinutes) ==
  [kind |-> "break", minutes |-> breakMinutes, title |-> displayTitle(breakMinutes.v),
   seconds |-> totalSeconds(breakMinutes.v)]

OpenPanel(s, kind, minutes) == [s EXCEPT !.panels = @ (+) SetToBag({Panel(kind, minutes)})]

\* the kinds of panel that register panel.onDidDispose
HasOnDidDispose(kind) == kind # "snooze"

\* panel.dispose(), or the user closing the panel: the panel goes, and its
\* onDidDispose callback (where one is registered) clears currentPanelOpen
Dispose(s, p) ==
  LET gone == [s EXCEPT !.panels = @ (-) SetToBag({p})] IN
  IF HasOnDidDispose(p.kind) THEN [Logged(gone, "dispose") EXCEPT !.panelOpen = FALSE]
  ELSE Logged(gone, "dispose")

showMainMenu(s) ==
  OpenPanel([s EXCEPT !.panelOpen = TRUE, !.paused = TRUE], "main", Undefined)

showBreakChooser(s) ==
  OpenPanel([s EXCEPT !.panelOpen = TRUE], "chooser", Undefined)

openBreakPanel(s, breakMinutes) ==
  [s EXCEPT !.panelOpen = TRUE, !.paused = TRUE,
            !.panels = @ (+) SetToBag({BreakPanel(breakMinutes)})]

askSnoozeAndStart(s) ==
  OpenPanel([s EXCEPT !.panelOpen = TRUE], "snooze", Undefined)

showSetWorkTime(s) ==
  OpenPanel([s EXCEPT !.panelOpen = TRUE], "setWorkTime", Undefined)

\* vscode.window.showInformationMessage('Пришло время выбрать перерыв!', 'Выбрать перерыв')
ShowPrompt(s) == Logged([s EXCEPT !.notes = @ + 1], "prompt")

activate(s) ==
  LET defaultWork == CfgGet(s.cfg, ActivateFallback)
      s1 == IF Falsy(s.stored) THEN [s EXCEPT !.stored = defaultWork] ELSE s
      s2 == IF ~s1.disabled THEN startWorkTimer(s1) ELSE s1
  IN [s2 EXCEPT !.active = TRUE]

deactivate(s) ==
  [ClearTimer(s) EXCEPT !.panelOpen = FALSE, !.disabled = FALSE, !.active = FALSE]

\* the callback of the timeout startWorkTimer sets
WorkTimerCallback(s) ==
  LET s1 == notifyBreak(ClearTimer(s)) IN
  IF ~s1.panelOpen THEN ShowPrompt(s1) ELSE showMainMenu(s1)

\* the callback of the timeout the confirmSnooze handler sets
SnoozeTimerCallback(s) == ShowPrompt(notifyBreak(s))

\* showMainMenu: panel.webview.onDidReceiveMessage
MainOnMessage(s, p, msg) ==
  IF msg.command = "" THEN s
  ELSE IF msg.command = "startBreak" THEN
    showBreakChooser([Dispose(s, p) EXCEPT !.panelOpen = FALSE])
  ELSE IF msg.command = "skipBreak" THEN
    startWorkTimer([Dispose(s, p) EXCEPT !.panelOpen = FALSE, !.paused = FALSE])
  ELSE IF msg.command = "snoozeBreak" THEN
    askSnoozeAndStart([Dispose(s, p) EXCEPT !.panelOpen = FALSE])
  ELSE IF msg.command = "disablePlugin" THEN
    Logged(ClearTimer([Dispose(s, p) EXCEPT !.panelOpen = FALSE, !.disabled = TRUE]), "info")
  ELSE IF msg.command = "setWorkTime" THEN
    showSetWorkTime([Dispose(s, p) EXCEPT !.panelOpen = FALSE])
  ELSE s

\* showBreakChooser: panel.webview.onDidReceiveMessage
ChooserOnMessage(s, p, msg) ==
  IF msg.command = "" THEN s
  ELSE IF msg.command = "breakDurationSelected" /\ IsNumber(msg.minutes) THEN
    openBreakPanel([Dispose(s, p) EXCEPT !.panelOpen = FALSE], msg.minutes)
  ELSE IF msg.command = "backToMain" THEN
    showMainMenu([Dispose(s, p) EXCEPT !.panelOpen = FALSE])
  ELSE s

\* openBreakPanel: panel.webview.onDidReceiveMessage
BreakOnMessage(s, p, msg) ==
  IF msg.command = "" THEN s
  ELSE IF msg.command = "breakEnded" THEN
    startWorkTimer([Logged(Dispose(s, p), "info") EXCEPT !.panelOpen = FALSE, !.paused = FALSE])
  ELSE s

\* SnoozeOnMessage with the clearTimeout of the earlier timer left out
SnoozeOnMessageNoCancel(s, p, msg) ==
  IF msg.command = "" THEN s
  ELSE IF msg.command = "confirmSnooze" /\ IsNumber(msg.minutes) THEN
    LET ms == DelayMs(msg.minutes.v)
        s1 == SetTimer(s, "snooze", msg.minutes, ms)
    IN [Dispose(s1, p) EXCEPT !.panelOpen = FALSE]
  ELSE IF msg.command = "cancelSnooze" THEN
    showMainMenu([Dispose(s, p) EXCEPT !.panelOpen = FALSE])
  ELSE s

\* SnoozeOnMessage with the typeof test of the minutes field left out
SnoozeOnMessageNoTypeCheck(s, p, msg) ==
  IF msg.command = "" THEN s
  ELSE IF msg.command = "confirmSnooze" THEN
    LET ms == DelayMs(msg.minutes.v)
        s1 == SetTimer(ClearTimer(s), "snooze", msg.minutes, ms)
    IN [Dispose(s1, p) EXCEPT !.panelOpen = FALSE]
  ELSE IF msg.command = "cancelSnooze" THEN
    showMainMenu([Dispose(s, p) EXCEPT !.panelOpen = FALSE])
  ELSE s

\* SnoozeOnMessage whose cancelSnooze branch cancels the pending timer
SnoozeOnMessageCancelClears(s, p, msg) ==
  IF msg.command = "" THEN s
  ELSE IF msg.command = "confirmSnooze" /\ IsNumber(msg.minutes) THEN
    LET ms == DelayMs(msg.minutes.v)
        s1 == SetTimer(ClearTimer(s), "snooze", msg.minutes, ms)
    IN [Dispose(s1, p) EXCEPT !.panelOpen = FALSE]
  ELSE IF msg.command = "cancelSnooze" THEN
    showMainMenu(ClearTimer([Dispose(s, p) EXCEPT !.panelOpen = FALSE]))
  ELSE s

\* askSnoozeAndStart: panel.webview.onDidReceiveMessage
SnoozeOnMessage(s, p, msg) ==
  IF msg.command = "" THEN s
  ELSE IF msg.command = "confirmSnooze" /\ IsNumber(msg.minutes) THEN
    LET ms == DelayMs(msg.minutes.v)
        s1 == SetTimer(ClearTimer(s), "snooze", msg.minutes, ms)
    IN [Dispose(s1, p) EXCEPT !.panelOpen = FALSE]
  ELSE IF msg.command = "cancelSnooze" THEN
    showMainMenu([Dispose(s, p) EXCEPT !.panelOpen = FALSE])
  ELSE s

\* showSetWorkTime: panel.webview.onDidReceiveMessage
SetWorkTimeOnMessage(s, p, msg) ==
  IF msg.command = "" THEN s
  ELSE IF msg.command = "workTimeSelected" /\ IsNumber(msg.minutes) THEN
    LET s1 == ClearTimer([s EXCEPT !.stored = msg.minutes])
        s2 == startWorkTimer([s1 EXCEPT !.paused = FALSE])
    IN showMainMenu([Dispose(s2, p) EXCEPT !.panelOpen = FALSE])
  ELSE s

OnMessage(s, p, msg) ==
  CASE p.kind = "main" -> MainOnMessage(s, p, msg)
    [] p.kind = "chooser" -> ChooserOnMessage(s, p, msg)
    [] p.kind = "break" -> BreakOnMessage(s, p, msg)
    [] p.kind = "snooze" -> SnoozeOnMessage(s, p, msg)
    [] p.kind = "setWorkTime" -> SetWorkTimeOnMessage(s, p, msg)

---------------------------------------------------------------------------
(* The events the host delivers *)

PlainCommands == {"", "startBreak", "skipBreak", "snoozeBreak", "disablePlugin", "setWorkTime",
                  "backToMain", "breakEnded", "cancelSnooze"}
MinuteCommands == {"breakDurationSelected", "confirmSnooze", "workTimeSelected"}

\* what a webview can post: a bare command, or a command with a minutes field that
\* is a number, is missing, or is not a number
Messages ==
  {[command |-> c, minutes |-> Undefined] : c \in PlainCommands}
  \cup UNION {{[command |-> c, minutes |-> m] :
                   m \in {Num(u) : u \in MinutesOf(c)} \cup {Undefined, Text}} : c \in MinuteCommands}

\* the commands the page of each kind of panel posts
PanelCommands(kind) ==
  CASE kind = "main" -> {"", "startBreak", "skipBreak", "snoozeBreak", "disablePlugin", "setWorkTime"}
    [] kind = "chooser" -> {"", "breakDurationSelected", "backToMain"}
    [] kind = "break" -> {"", "breakEnded"}
    [] kind = "snooze" -> {"", "confirmSnooze", "cancelSnooze"}
    [] kind = "setWorkTime" -> {"", "workTimeSelected"}

Bounded(s) == BagCardinality(s.panels) + s.notes <= MaxPending

Init ==
  /\ timer = 0
  /\ timers = {}
  /\ currentPanelOpen = FALSE
  /\ isDisabledThisSession = FALSE
  /\ isPausedManually = FALSE
  /\ workMinutes \in PersistedInputs
  /\ defaultWorkMinutes \in ConfigInputs
  /\ panels = EmptyBag
  /\ notes = 0
  /\ active = FALSE
  /\ log = <<>>
  /\ swt = <<>>
  /\ last = Event("init", "", NoMsg)

Activate ==
  /\ ~active
  /\ Commit(activate(Cur), Event("activate", "", NoMsg))

Deactivate ==
  /\ active
  /\ Commit(deactivate(Cur), Event("deactivate", "", NoMsg))

\* a live timeout expires: the runtime drops it and runs its callback
FireWorkTimer ==
  \E t \in timers :
    /\ t.kind = "work"
    /\ LET s == WorkTimerCallback([Cur EXCEPT !.timers = @ \ {t}]) IN
       Bounded(s) /\ Commit(s, Event("fire", "work", NoMsg))

FireSnoozeTimer ==
  \E t \in timers :
    /\ t.kind = "snooze"
    /\ LET s == SnoozeTimerCallback([Cur EXCEPT !.timers = @ \ {t}]) IN
       Bounded(s) /\ Commit(s, Event("fire", "snooze", NoMsg))

\* the user presses the notification's button: selection === 'Выбрать перерыв'
ClickNotification ==
  /\ notes > 0
  /\ LET s == showMainMenu([Cur EXCEPT !.notes = @ - 1]) IN
     Bounded(s) /\ Commit(s, Event("click", "", NoMsg))

\* the notification goes away unanswered: selection === undefined
DismissNotification ==
  /\ notes > 0
  /\ Commit([Cur EXCEPT !.notes = @ - 1], Event("dismiss", "", NoMsg))

PanelMessage ==
  \E p \in BagToSet(panels) : \E msg \in Messages :
    /\ msg.command \in PanelCommands(p.kind)
    /\ LET s == OnMessage(Cur, p, msg) IN
       Bounded(s) /\ Commit(s, Event("message", p.kind, msg))

\* the user closes a panel's tab
ClosePanel ==
  \E p \in BagToSet(panels) :
    Commit(Dispose(Cur, p), Event("close", p.kind, NoMsg))

Next ==
  \/ Activate
  \/ Deactivate
  \/ FireWorkTimer
  \/ FireSnoozeTimer
  \/ ClickNotification
  \/ DismissNotification
  \/ PanelMessage
  \/ ClosePanel

Spec == Init /\ [][Next]_vars

---------------------------------------------------------------------------
(* getWorkMinutes on its own: every stored value against every configuration *)

StoredInputs ==
  {Undefined, Text} \cup
  {Num(u) : u \in {-Scale, -1, 0, 1, 2999, Scale, 25 * Scale, 30 * Scale, 45 * Scale}}

DefaultInputs == {Undefined, Num(0), Num(Scale), Num(25 * Scale), Num(30 * Scale)}

InitGet ==
  /\ timer = 0
  /\ timers = {}
  /\ currentPanelOpen = FALSE
  /\ isDisabledThisSession = FALSE
  /\ isPausedManually = FALSE
  /\ workMinutes \in StoredInputs
  /\ defaultWorkMinutes \in DefaultInputs
  /\ panels = EmptyBag
  /\ notes = 0
  /\ active = FALSE
  /\ log = <<>>
  /\ swt = <<>>
  /\ last = Event("init", "", NoMsg)

GetWorkMinutesCall ==
  /\ last.ev = "init"
  /\ last' = Event("getWorkMinutes", "",
                   [command |-> "", minutes |-> getWorkMinutes(workMinutes, defaultWorkMinutes)])
  /\ UNCHANGED <<timer, timers, currentPanelOpen, isDisabledThisSession, isPausedManually,
                 workMinutes, defaultWorkMinutes, panels, notes, active, log, swt>>

NextGet == GetWorkMinutesCall

SpecGet == InitGet /\ [][NextGet]_vars

---------------------------------------------------------------------------
(* Properties *)

InLog(what) == \E k \in DOMAIN log : log[k] = what

IsMessage(kind, command) ==
  last.ev = "message" /\ last.kind = kind /\ last.command = command

PositiveNumber(x) == x.t = "number" /\ x.v > 0

\* C1: in every reachable state at most one timer is live, and the live timer
\* is the one the handle names: each arming site (startWorkTimer, the
\* confirmSnooze handler) cancels the timer armed before it.
C1_AtMostOneLiveTimer ==
  /\ Cardinality(timers) <= 1
  /\ \A t \in timers : t.id = timer

\* C1 witness: skipBreak ran startWorkTimer while an earlier timer was still
\* live; the call cancelled it and armed the new one.
C1_Witness ==
  /\ IsMessage("main", "skipBreak")
  /\ InLog("clearTimeout")
  /\ InLog("setTimeout")
  /\ Cardinality(timers) = 1

\* C2: startWorkTimer arms only when it finds panelOpen, disabled and paused
\* all false, and a call that finds any of them set touches neither the handle
\* nor the runtime's timers.
C2_ArmsOnlyWhenFlagsClear ==
  \A k \in DOMAIN swt :
    LET c == swt[k] IN
    /\ (\E j \in DOMAIN c.ops : c.ops[j] = "setTimeout")
         => (~c.panelOpen /\ ~c.disabled /\ ~c.paused)
    /\ (c.panelOpen \/ c.disabled \/ c.paused)
         => (c.ops = <<>> /\ c.after = c.before)

\* C2 witness: activate called startWorkTimer while the manual pause was
\* still set from before the deactivation, with a stale handle in place, and
\* the call returned without touching it.
C2_Witness ==
  /\ last.ev = "activate"
  /\ swt # <<>>
  /\ swt[1].paused /\ ~swt[1].panelOpen /\ ~swt[1].disabled
  /\ swt[1].before # 0
  /\ timer = swt[1].before

\* C3: once the session is disabled no timer is live and no callback arms
\* one, for as long as the disabled flag stays set.
C3_DisabledIsAbsorbing ==
  isDisabledThisSession => (timers = {} /\ ~InLog("setTimeout"))

\* C4: after deactivate the three flags are false and no timer is pending.
C4_DeactivateResetsAll ==
  last.ev = "deactivate" =>
    /\ ~isDisabledThisSession
    /\ ~isPausedManually
    /\ ~currentPanelOpen
    /\ timers = {}
    /\ timer = 0

\* C5: after a timer of either kind has fired, the handle is undefined.
C5_FireClearsHandle ==
  last.ev = "fire" => timer = 0

\* C6: getWorkMinutes returns the stored value when it is a number greater
\* than 0, and otherwise the configured default, which is 30 minutes when none
\* is configured.
C6_GetWorkMinutes ==
  last.ev = "getWorkMinutes" =>
    last.minutes = (IF workMinutes.t = "number" /\ workMinutes.v > 0 THEN workMinutes
                    ELSE IF defaultWorkMinutes.t = "undefined" THEN Num(30 * Scale)
                    ELSE defaultWorkMinutes)

\* C6 witness: stored 0 with nothing configured gives 30 minutes.
C6_Witness ==
  /\ last.ev = "getWorkMinutes"
  /\ workMinutes = Num(0)
  /\ defaultWorkMinutes = Undefined
  /\ last.minutes = Num(30 * Scale)

\* C7: activate on a first run (nothing stored, nothing configured) leaves
\* getWorkMinutes at 30 and arms the first work timer for 30 minutes.
C7_FirstRunArmsThirty ==
  [][(last'.ev = "activate" /\ workMinutes = Undefined /\ defaultWorkMinutes = Undefined)
       => /\ getWorkMinutes(workMinutes', defaultWorkMinutes') = Num(30 * Scale)
          /\ \E t \in timers' : t.kind = "work" /\ t.minutes = Num(30 * Scale)
                                 /\ t.ms = 30 * MsPerMinute]_vars

\* C8: once activate has run, the stored workMinutes is a number greater than 0.
C8_StoredAlwaysPositive ==
  last.ev # "init" => PositiveNumber(workMinutes)

\* the one timer a skipBreak is to leave: a work timer for the stored minutes
WorkTimerForStored ==
  {[id |-> timer, kind |-> "work", minutes |-> workMinutes, ms |-> DelayMs(workMinutes.v)]}

\* C9 as claimed: in an activated session with a selected work time M > 0
\* stored, skipBreak on the main menu closes the panel, clears paused and leaves
\* exactly one work timer, armed for M.
C9_SkipArmsStored ==
  (active /\ IsMessage("main", "skipBreak")
     /\ PositiveNumber(workMinutes) /\ workMinutes.v \in WorkInputs)
    => /\ InLog("dispose")
       /\ ~isPausedManually
       /\ timers = WorkTimerForStored

\* C9 as amended: the same, in a session that is not disabled, for any stored
\* M > 0; the delay is max(1000, round(M * 60000)) ms.
C9_SkipArmsStoredUnlessDisabled ==
  (IsMessage("main", "skipBreak") /\ PositiveNumber(workMinutes) /\ ~isDisabledThisSession)
    => /\ InLog("dispose")
       /\ ~isPausedManually
       /\ ~currentPanelOpen
       /\ timers = WorkTimerForStored

\* C9 witness: skipBreak with one minute stored and 25 configured armed the
\* timer for one minute.
C9_Witness ==
  /\ IsMessage("main", "skipBreak")
  /\ workMinutes = Num(Scale)
  /\ defaultWorkMinutes = Num(25 * Scale)
  /\ ~isDisabledThisSession
  /\ \E t \in timers : t.kind = "work" /\ t.minutes = Num(Scale) /\ t.ms = MsPerMinute

\* C10: confirmSnooze with a number M closes the snooze panel and leaves
\* exactly one timer, the snooze timer for M (delay max(1000, round(M * 60000))
\* ms), named by the handle; when a snooze timer fires, the break prompt is
\* shown and no timer is left to fire.
C10_SnoozeArmsOneTimer ==
  /\ (IsMessage("snooze", "confirmSnooze") /\ IsNumber(last.minutes))
       => /\ InLog("dispose")
          /\ timers = {[id |-> timer, kind |-> "snooze", minutes |-> last.minutes,
                        ms |-> DelayMs(last.minutes.v)]}
  /\ (last.ev = "fire" /\ last.kind = "snooze")
       => /\ InLog("prompt")
          /\ notes >= 1
          /\ timers = {}

\* C10 witness: a snooze of 5 minutes confirmed while an earlier timer was
\* live: that timer was cancelled and the one timer left is 300000 ms.
C10_Witness ==
  /\ IsMessage("snooze", "confirmSnooze")
  /\ last.minutes = Num(5 * Scale)
  /\ InLog("clearTimeout")
  /\ \E t \in timers : t.kind = "snooze" /\ t.ms = 5 * MsPerMinute

\* C11: in a session that is not disabled, breakEnded closes the break panel,
\* leaves panelOpen and paused false, and leaves exactly one work timer, armed
\* for the stored workMinutes.
C11_BreakEndedRearmsStored ==
  (active /\ IsMessage("break", "breakEnded") /\ ~isDisabledThisSession)
    => /\ InLog("dispose")
       /\ ~currentPanelOpen
       /\ ~isPausedManually
       /\ timers = WorkTimerForStored

\* C11 for a stored value greater than 0 (the case the store is meant to be
\* in): the same statement, which the code meets.
C11_BreakEndedRearmsPositiveStored ==
  (IsMessage("break", "breakEnded") /\ ~isDisabledThisSession /\ PositiveNumber(workMinutes))
    => /\ InLog("dispose")
       /\ ~currentPanelOpen
       /\ ~isPausedManually
       /\ timers = WorkTimerForStored

\* C12: at most one panel is open in any reachable state.
C12_AtMostOnePanel ==
  BagCardinality(panels) <= 1

\* C13: whenever a panel is open, the manual-pause flag is true.
C13_PausedWhilePanelOpen ==
  panels # EmptyBag => isPausedManually

\* a message no handler acts on: no command, or a command that carries minutes
\* with the minutes field missing or not of type number
Malformed(e) ==
  e.command = "" \/ (e.command \in MinuteCommands /\ ~IsNumber(e.minutes))

\* C14: a malformed message (no command, or breakDurationSelected,
\* confirmSnooze or workTimeSelected without a numeric minutes field) changes
\* neither the timer handle, nor the live timers, nor the three flags, nor the
\* stored workMinutes, nor the open panels.
C14_MalformedIgnored ==
  [][(last'.ev = "message" /\ Malformed(last'))
       => UNCHANGED <<timer, timers, currentPanelOpen, isDisabledThisSession,
                      isPausedManually, workMinutes, panels>>]_vars

\* C14 witness: the snooze panel received confirmSnooze with a string for
\* minutes while a timer was live; the handler did nothing and the panel is
\* still open.
C14_Witness ==
  /\ IsMessage("snooze", "confirmSnooze")
  /\ last.minutes = Text
  /\ log = <<>>
  /\ timers # {}
  /\ BagIn(Panel("snooze", Undefined), panels)

\* C15: a break panel of a duration under one minute shows that duration in
\* seconds, any other duration rounded to whole minutes, and its countdown
\* starts from the duration rounded to whole seconds.
C15_BreakTitle ==
  \A p \in BagToSet(panels) :
    p.kind = "break" =>
      /\ p.seconds = Round(p.minutes.v * 60, Scale)
      /\ IF p.minutes.v < Scale
           THEN p.title = [n |-> Round(p.minutes.v * 60, Scale), unit |-> "sec"]
           ELSE p.title = [n |-> Round(p.minutes.v, Scale), unit |-> "min"]

\* the two scenarios of C15, which the code meets: 10 seconds is shown as
\* 10 sec and counts down from 10, 5 minutes as 5 min and counts down from 300
C15_Scenarios ==
  \A p \in BagToSet(panels) :
    /\ (p.kind = "break" /\ p.minutes = Num(Scale \div 6))
         => (p.title = [n |-> 10, unit |-> "sec"] /\ p.seconds = 10)
    /\ (p.kind = "break" /\ p.minutes = Num(5 * Scale))
         => (p.title = [n |-> 5, unit |-> "min"] /\ p.seconds = 300)

\* C16: every armed timer, work or snooze, has the delay
\* max(1000, round(minutes * 60000)) ms of its (numeric) minutes, which is never
\* below 1000 ms, also for 0, negative and very small positive minutes.
C16_DelayFloor ==
  \A t \in timers :
    LET rounded == (2 * t.minutes.v + UnitsPerMs) \div (2 * UnitsPerMs) IN
    /\ t.minutes.t = "number"
    /\ t.ms >= 1000
    /\ t.ms = (IF rounded > 1000 THEN rounded ELSE 1000)

\* C16 witness: a snooze of a very small positive number of minutes (half a millisecond)
\* was confirmed and its timer is armed for 1000 ms.
C16_Witness ==
  /\ IsMessage("snooze", "confirmSnooze")
  /\ last.minutes = Num(1)
  /\ \E t \in timers : t.kind = "snooze" /\ t.minutes = Num(1) /\ t.ms = 1000

\* C17: cancelSnooze closes the snooze panel and opens the main menu (panelOpen
\* and paused true), plays no sound, shows no notification, and neither arms nor
\* cancels a timer: the handle, the live timers, the disabled flag and the
\* stored workMinutes are as they were.
C17_CancelSnoozeFrame ==
  [][(last'.ev = "message" /\ last'.kind = "snooze" /\ last'.command = "cancelSnooze")
       => /\ panels' = (panels (-) SetToBag({Panel("snooze", Undefined)}))
                          (+) SetToBag({Panel("main", Undefined)})
          /\ currentPanelOpen' /\ isPausedManually'
          /\ \A k \in DOMAIN log' :
               log'[k] \notin {"sound", "prompt", "setTimeout", "clearTimeout",
                               "clearTimeout(stale)", "timer=undefined"}
          /\ UNCHANGED <<timer, timers, isDisabledThisSession, workMinutes, notes>>]_vars

\* C17 witness: cancelSnooze was handled while a timer was live; the main menu
\* is open, the snooze panel is not, and the timer is still live.
C17_Witness ==
  /\ IsMessage("snooze", "cancelSnooze")
  /\ BagIn(Panel("main", Undefined), panels)
  /\ ~BagIn(Panel("snooze", Undefined), panels)
  /\ timer # 0
  /\ \E t \in timers : t.id = timer

\* C18: between callbacks, panelOpen = true implies that some panel is open,
\* also after the user has closed a panel by hand.
C18_PanelOpenHasPanel ==
  currentPanelOpen => panels # EmptyBag

\* C19: in every state of an activated session that is not disabled, a timer
\* is live, or a break notification awaits its answer, or a panel is open.
C19_LoopNeverStops ==
  (active /\ ~isDisabledThisSession)
    => (timers # {} \/ notes > 0 \/ panels # EmptyBag)

\* C20 as claimed: in an activated session, workTimeSelected with a number M
\* stores M, cancels the pending timer and arms none; the handler ends with no live timer, the set-work-time panel
\* closed, the main menu open and panelOpen = paused = true.
C20_WorkTimeSelectedArmsNothing ==
  (active /\ IsMessage("setWorkTime", "workTimeSelected") /\ IsNumber(last.minutes))
    => /\ workMinutes = last.minutes
       /\ ~InLog("setTimeout")
       /\ timers = {}
       /\ timer = 0
       /\ InLog("dispose")
       /\ BagIn(Panel("main", Undefined), panels)
       /\ currentPanelOpen
       /\ isPausedManually

\* C20 as amended: workTimeSelected with a number M stores M, closes the
\* set-work-time panel, opens the main menu and ends with panelOpen = paused =
\* true; its one startWorkTimer call arms nothing when it finds panelOpen or
\* disabled set, and then no timer is live and the handle is undefined;
\* otherwise it arms the one work timer, for getWorkMinutes.
C20_WorkTimeSelectedArmsUnlessGuarded ==
  (IsMessage("setWorkTime", "workTimeSelected") /\ IsNumber(last.minutes))
    => /\ workMinutes = last.minutes
       /\ InLog("dispose")
       /\ BagIn(Panel("main", Undefined), panels)
       /\ currentPanelOpen
       /\ isPausedManually
       /\ Len(swt) = 1
       /\ ~swt[1].paused
       /\ IF swt[1].panelOpen \/ swt[1].disabled
            THEN ~InLog("setTimeout") /\ timers = {} /\ timer = 0
            ELSE LET m == getWorkMinutes(workMinutes, defaultWorkMinutes) IN
                 timers = {[id |-> timer, kind |-> "work", minutes |-> m, ms |-> DelayMs(m.v)]}

\* C20 witness: one minute was selected while panelOpen was true and a timer was
\* live: the timer was cancelled, none was armed, and the main menu is open.
C20_Witness ==
  /\ IsMessage("setWorkTime", "workTimeSelected")
  /\ last.minutes = Num(Scale)
  /\ workMinutes = Num(Scale)
  /\ swt[1].panelOpen /\ ~swt[1].disabled
  /\ InLog("clearTimeout")
  /\ timers = {}
  /\ BagIn(Panel("main", Undefined), panels)
  /\ ~BagIn(Panel("setWorkTime", Undefined), panels)

====
